---------------------------- MODULE Spec2Model ----------------------------
(***************************************************************************)
(* A model of two parts of sudo-rs:                                        *)
(*   - Pipeline::run and Pipeline::apply_policy_to_context                 *)
(*     (src/src/sudo/pipeline.rs), as a step machine whose steps are the   *)
(*     plugin calls the function makes, in program order;                  *)
(*   - the PAM conversation function converse and the default adaptation   *)
(*     of SequentialConverser to Converser                                 *)
(*     (src/lib/sudo-pam/src/converse.rs).                                 *)
(* Option<T> values are sequences of length at most one: None is <<>>,     *)
(* Some(x) is <<x>>.                                                       *)
(***************************************************************************)
EXTENDS Integers, Sequences, FiniteSets, TLC

None == <<>>
Some(x) == <<x>>
IsSome(o) == Len(o) = 1
Unwrap(o) == o[1]

(***************************************************************************)
(* Bounds of the model.                                                    *)
(***************************************************************************)
MaxValidity == 1
MaxAttempts == 1
MaxExitCode == 1

(***************************************************************************)
(*                              PIPELINE                                   *)
(***************************************************************************)
VARIABLES
    pc,            \* the statement of Pipeline::run that executes next
    sudo_options,  \* the SudoOptions argument of run
    env_path,      \* std::env::var("PATH"): None when unset
    cwd,           \* std::env::current_dir().ok()
    pre,           \* the PreJudgementPolicy returned by PolicyPlugin::init
    context,       \* the local `context` of run
    policy,        \* the Policy returned by PolicyPlugin::judge
    exec_result,   \* the local `exec_result` of run
    pid,           \* the local `pid` of run
    trace,         \* every call run has made to a plugin, the executor or the OS
    outcome        \* how run ended: the value returned, or the process exit

pvars == <<pc, sudo_options, env_path, cwd, pre, context, policy, exec_result,
           pid, trace, outcome>>

\* the conversation bridge's state
VARIABLES
    carrier,       \* the ConverserData behind appdata_ptr
    cpc,           \* where the current call of converse stands
    num_msg,       \* argument num_msg
    msg,           \* argument msg: the foreign pam_message records
    response,      \* the caller's location that argument response points to
    response_before, \* that location as it was when converse was entered
    conversation,  \* the local `conversation`: its messages
    temp_resp,     \* the local `temp_resp`: what calloc returned
    invoked,       \* handle_conversation was called during this call
    next_msg,      \* the default adaptation's position in messages_mut()
    handled,       \* the SequentialConverser handlers called during this call
    ret,           \* the c_int returned: None until converse returns
    conv_result,   \* what handle_conversation did: "Ok", "Err", "Panic"; "none" before
    panic_raised,  \* a panic was raised inside catch_unwind during this call
    fault_seen     \* some call on this carrier has panicked

cvars == <<carrier, cpc, num_msg, msg, response, response_before, conversation,
           temp_resp, invoked, next_msg, handled, conv_result, ret, panic_raised, fault_seen>>

vars == <<pvars, cvars>>

Users == {"alice", "bob"}
ChdirRequests == {None, Some("/cwd"), Some("/other")}
CurrentDirs == {None, Some("/cwd")}
InheritedPaths == {None, Some("/usr/bin")}
SecurePaths == {None, Some("/secure")}
PolicyDirs == {None, Some("/policy")}
CommandPath == "/bin/cmd"
Pids == {42}
Signals == {15}
ExitCodes == 0..MaxExitCode
Durations == 0..MaxValidity
Attempts == 0..MaxAttempts

\* crate::sudoers::Authorization
Forbidden ==
    [tag |-> "Forbidden", must_authenticate |-> FALSE, prior_validity |-> 0,
     allowed_attempts |-> 0]
Allowed(must, validity, attempts) ==
    [tag |-> "Allowed", must_authenticate |-> must, prior_validity |-> validity,
     allowed_attempts |-> attempts]
Authorizations ==
    {Forbidden} \cup
    {Allowed(m, v, a) : m \in BOOLEAN, v \in Durations, a \in Attempts}

\* crate::sudoers::DirChange
DirAny == [tag |-> "Any", dir |-> None]
DirStrict(optdir) == [tag |-> "Strict", dir |-> optdir]
DirChanges == {DirAny} \cup {DirStrict(d) : d \in PolicyDirs}

\* what the methods of a Policy value return
Policies ==
    [authorization : Authorizations, chdir : DirChanges, use_pty : BOOLEAN]

NoPolicy == [authorization |-> Forbidden, chdir |-> DirAny, use_pty |-> TRUE]

\* crate::common::Error, by variant
NoError == [kind |-> "none", msg |-> <<>>, cmd |-> None, from |-> "none"]
ErrorAuth(message) ==
    [kind |-> "Authentication", msg |-> message, cmd |-> None, from |-> "pipeline"]
ErrorCommandNotFound(command) ==
    [kind |-> "CommandNotFound", msg |-> <<>>, cmd |-> Some(command),
     from |-> "pipeline"]
ErrorIo(optcommand, source) ==
    [kind |-> "IoError", msg |-> <<>>, cmd |-> optcommand, from |-> source]
ErrorFrom(callee) ==
    [kind |-> "Callee", msg |-> <<>>, cmd |-> None, from |-> callee]

\* the fields of crate::common::Context that run reads or writes
NoContext ==
    [path |-> "", user |-> "", chdir |-> None, use_pty |-> FALSE,
     resolved |-> FALSE, command |-> "", pid |-> 0, built |-> FALSE]

\* crate::exec::ExitReason
ExitReasons ==
    {[kind |-> "Code", val |-> c] : c \in ExitCodes} \cup
    {[kind |-> "Signal", val |-> s] : s \in Signals}
NoReason == [kind |-> "none", val |-> 0]

NoResult == [tag |-> "none", reason |-> NoReason, err |-> NoError]
ResultOk(reason) == [tag |-> "Ok", reason |-> reason, err |-> NoError]
ResultErr(e) == [tag |-> "Err", reason |-> NoReason, err |-> e]

\* one entry of the call trace: the callee, the context it was handed, its
\* other arguments, and whether it returned Ok
Call(op, ctx, args, ok) == [op |-> op, ctx |-> ctx, args |-> args, ok |-> ok]

\* run returns Err(e)
ReturnErr(e) ==
    /\ pc' = "done"
    /\ outcome' = [kind |-> "Err", err |-> e, code |-> 0]

NoOutcome == [kind |-> "running", err |-> NoError, code |-> 0]

(***************************************************************************)
(* run, line 41: let pre = self.policy.init()?                             *)
(***************************************************************************)
PolicyInit ==
    /\ pc = "policy_init"
    /\ \/ /\ \E sp \in SecurePaths : pre' = [secure_path |-> sp]
          /\ trace' = Append(trace, Call("policy.init", context, <<>>, TRUE))
          /\ pc' = "build_context"
          /\ UNCHANGED outcome
       \/ /\ trace' = Append(trace, Call("policy.init", context, <<>>, FALSE))
          /\ ReturnErr(ErrorFrom("policy.init"))
          /\ UNCHANGED pre
    /\ UNCHANGED <<sudo_options, env_path, cwd, context, policy, exec_result, pid>>
    /\ UNCHANGED cvars

\* SecurePath with the precedence turned round: the inherited PATH first
SecurePathPreferringInherited(prejudgement, inherited) ==
    IF IsSome(inherited)
    THEN Unwrap(inherited)
    ELSE IF IsSome(prejudgement.secure_path)
         THEN Unwrap(prejudgement.secure_path) ELSE ""

\* lines 42-44: the policy's secure path, else the inherited PATH, else ""
SecurePath(prejudgement, inherited) ==
    IF IsSome(prejudgement.secure_path)
    THEN Unwrap(prejudgement.secure_path)
    ELSE IF IsSome(inherited) THEN Unwrap(inherited) ELSE ""

(***************************************************************************)
(* run, lines 42-45: Context::build_from_options(sudo_options, path)?      *)
(* Command resolution and the process id are decided inside that call.     *)
(***************************************************************************)
BuildContext ==
    /\ pc = "build_context"
    /\ \/ /\ \E r \in BOOLEAN, p \in Pids :
                context' = [path |-> SecurePath(pre, env_path),
                            user |-> sudo_options.user,
                            chdir |-> sudo_options.chdir,
                            use_pty |-> sudo_options.use_pty,
                            resolved |-> r,
                            command |-> CommandPath,
                            pid |-> p,
                            built |-> TRUE]
          /\ pc' = "judge"
          /\ UNCHANGED outcome
       \/ /\ ReturnErr(ErrorFrom("build_from_options"))
          /\ UNCHANGED context
    /\ UNCHANGED <<sudo_options, env_path, cwd, pre, policy, exec_result, pid, trace>>
    /\ UNCHANGED cvars

\* Judge with a retry: after a first error judge is asked once more
JudgeRetrying ==
    /\ pc = "judge"
    /\ \/ /\ policy' \in Policies
          /\ trace' = Append(trace, Call("policy.judge", context, <<>>, TRUE))
          /\ pc' = "match"
          /\ UNCHANGED outcome
       \/ /\ trace' = Append(trace, Call("policy.judge", context, <<>>, FALSE))
          /\ IF Len(trace) > 0 /\ trace[Len(trace)].op = "policy.judge"
             THEN ReturnErr(ErrorFrom("policy.judge"))
             ELSE UNCHANGED <<pc, outcome>>
          /\ UNCHANGED policy
    /\ UNCHANGED <<sudo_options, env_path, cwd, pre, context, exec_result, pid>>
    /\ UNCHANGED cvars

(***************************************************************************)
(* run, line 47: let policy = self.policy.judge(pre, &context)?            *)
(***************************************************************************)
Judge ==
    /\ pc = "judge"
    /\ \/ /\ policy' \in Policies
          /\ trace' = Append(trace, Call("policy.judge", context, <<>>, TRUE))
          /\ pc' = "match"
          /\ UNCHANGED outcome
       \/ /\ trace' = Append(trace, Call("policy.judge", context, <<>>, FALSE))
          /\ ReturnErr(ErrorFrom("policy.judge"))
          /\ UNCHANGED policy
    /\ UNCHANGED <<sudo_options, env_path, cwd, pre, context, exec_result, pid>>
    /\ UNCHANGED cvars

\* lines 52-55: the refusal, as the pieces format! joins
RefusalMessage(ctx) == <<"I'm sorry ", ctx.user, ". I'm afraid I can't do that">>

\* MatchForbidden with the `return` of line 52 missing: run goes on after
\* the match
MatchForbiddenFallingThrough ==
    /\ pc = "match"
    /\ policy.authorization.tag = "Forbidden"
    /\ pc' = "pre_exec"
    /\ UNCHANGED <<sudo_options, env_path, cwd, pre, context, policy, exec_result,
                   pid, trace, outcome>>
    /\ UNCHANGED cvars

(***************************************************************************)
(* run, lines 51-56: Authorization::Forbidden => return Err(Error::auth)   *)
(***************************************************************************)
MatchForbidden ==
    /\ pc = "match"
    /\ policy.authorization.tag = "Forbidden"
    /\ ReturnErr(ErrorAuth(RefusalMessage(context)))
    /\ UNCHANGED <<sudo_options, env_path, cwd, pre, context, policy, exec_result,
                   pid, trace>>
    /\ UNCHANGED cvars

\* apply_policy_to_context rejecting a differing request only when the policy
\* names a directory: Strict(None) lets the request through
ApplyPolicyToContextStrictSomeOnly(ctx, pol, current_dir) ==
    LET rejected == /\ pol.chdir.tag = "Strict"
                    /\ IsSome(pol.chdir.dir)
                    /\ IsSome(ctx.chdir)
                    /\ ctx.chdir # current_dir
        after_chdir == IF pol.chdir.tag = "Strict"
                       THEN [ctx EXCEPT !.chdir = pol.chdir.dir]
                       ELSE ctx
        after_pty == IF ~pol.use_pty
                     THEN [after_chdir EXCEPT !.use_pty = FALSE]
                     ELSE after_chdir
    IN  IF rejected
        THEN [ok |-> FALSE, ctx |-> ctx, err |-> ErrorAuth(<<"no permission">>)]
        ELSE [ok |-> TRUE, ctx |-> after_pty, err |-> NoError]

\* apply_policy_to_context copying the policy's use_pty into the context,
\* which also turns the pty on
ApplyPolicyToContextCopyingUsePty(ctx, pol, current_dir) ==
    LET rejected == /\ pol.chdir.tag = "Strict"
                    /\ IsSome(ctx.chdir)
                    /\ ctx.chdir # current_dir
        after_chdir == IF pol.chdir.tag = "Strict"
                       THEN [ctx EXCEPT !.chdir = pol.chdir.dir]
                       ELSE ctx
        after_pty == [after_chdir EXCEPT !.use_pty = pol.use_pty]
    IN  IF rejected
        THEN [ok |-> FALSE, ctx |-> ctx, err |-> ErrorAuth(<<"no permission">>)]
        ELSE [ok |-> TRUE, ctx |-> after_pty, err |-> NoError]

(***************************************************************************)
(* apply_policy_to_context, lines 105-127: the value returned and the      *)
(* context as the call leaves it.                                          *)
(***************************************************************************)
ApplyPolicyToContext(ctx, pol, current_dir) ==
    LET rejected == /\ pol.chdir.tag = "Strict"
                    /\ IsSome(ctx.chdir)
                    /\ ctx.chdir # current_dir
        after_chdir == IF pol.chdir.tag = "Strict"
                       THEN [ctx EXCEPT !.chdir = pol.chdir.dir]
                       ELSE ctx
        after_pty == IF ~pol.use_pty
                     THEN [after_chdir EXCEPT !.use_pty = FALSE]
                     ELSE after_chdir
    IN  IF rejected
        THEN [ok |-> FALSE, ctx |-> ctx, err |-> ErrorAuth(<<"no permission">>)]
        ELSE [ok |-> TRUE, ctx |-> after_pty, err |-> NoError]

\* MatchAllowed refining a copy: the context run goes on with is the one
\* judge saw
MatchAllowedOnCopy ==
    /\ pc = "match"
    /\ policy.authorization.tag = "Allowed"
    /\ LET applied == ApplyPolicyToContext(context, policy, cwd)
       IN  /\ context' = context
           /\ IF applied.ok
              THEN pc' = "auth_init" /\ UNCHANGED outcome
              ELSE ReturnErr(applied.err)
    /\ UNCHANGED <<sudo_options, env_path, cwd, pre, policy, exec_result, pid, trace>>
    /\ UNCHANGED cvars

(***************************************************************************)
(* run, lines 57-62: Authorization::Allowed =>                             *)
(*     self.apply_policy_to_context(&mut context, &policy)?                *)
(***************************************************************************)
MatchAllowed ==
    /\ pc = "match"
    /\ policy.authorization.tag = "Allowed"
    /\ LET applied == ApplyPolicyToContext(context, policy, cwd)
       IN  /\ context' = applied.ctx
           /\ IF applied.ok
              THEN pc' = "auth_init" /\ UNCHANGED outcome
              ELSE ReturnErr(applied.err)
    /\ UNCHANGED <<sudo_options, env_path, cwd, pre, policy, exec_result, pid, trace>>
    /\ UNCHANGED cvars

\* AuthInit without the test of must_authenticate: authenticate always follows
AuthInitAlwaysAuthenticating ==
    /\ pc = "auth_init"
    /\ \/ /\ trace' = Append(trace, Call("auth.init", context, <<>>, TRUE))
          /\ pc' = "authenticate"
          /\ UNCHANGED outcome
       \/ /\ trace' = Append(trace, Call("auth.init", context, <<>>, FALSE))
          /\ ReturnErr(ErrorFrom("auth.init"))
    /\ UNCHANGED <<sudo_options, env_path, cwd, pre, context, policy, exec_result, pid>>
    /\ UNCHANGED cvars

(***************************************************************************)
(* run, lines 63-64: self.authenticator.init(&context)?, then the test of  *)
(* must_authenticate                                                       *)
(***************************************************************************)
AuthInit ==
    /\ pc = "auth_init"
    /\ \/ /\ trace' = Append(trace, Call("auth.init", context, <<>>, TRUE))
          /\ pc' = IF policy.authorization.must_authenticate
                   THEN "authenticate" ELSE "pre_exec"
          /\ UNCHANGED outcome
       \/ /\ trace' = Append(trace, Call("auth.init", context, <<>>, FALSE))
          /\ ReturnErr(ErrorFrom("auth.init"))
    /\ UNCHANGED <<sudo_options, env_path, cwd, pre, context, policy, exec_result, pid>>
    /\ UNCHANGED cvars

\* Authenticate with the `?` of line 66 dropped: an error is ignored
AuthenticateIgnoringError ==
    /\ pc = "authenticate"
    /\ LET args == <<policy.authorization.prior_validity,
                     policy.authorization.allowed_attempts>>
       IN  \E ok \in BOOLEAN :
              trace' = Append(trace, Call("auth.authenticate", context, args, ok))
    /\ pc' = "pre_exec"
    /\ UNCHANGED <<sudo_options, env_path, cwd, pre, context, policy, exec_result,
                   pid, outcome>>
    /\ UNCHANGED cvars

\* Authenticate with its two arguments in the wrong order
AuthenticateSwappedArguments ==
    /\ pc = "authenticate"
    /\ LET args == <<policy.authorization.allowed_attempts,
                     policy.authorization.prior_validity>>
       IN  \/ /\ trace' = Append(trace, Call("auth.authenticate", context, args, TRUE))
              /\ pc' = "pre_exec"
              /\ UNCHANGED outcome
           \/ /\ trace' = Append(trace, Call("auth.authenticate", context, args, FALSE))
              /\ ReturnErr(ErrorFrom("auth.authenticate"))
    /\ UNCHANGED <<sudo_options, env_path, cwd, pre, context, policy, exec_result, pid>>
    /\ UNCHANGED cvars

(***************************************************************************)
(* run, lines 65-66:                                                       *)
(*     self.authenticator.authenticate(&context, prior_validity,           *)
(*                                     allowed_attempts)?                  *)
(***************************************************************************)
Authenticate ==
    /\ pc = "authenticate"
    /\ LET args == <<policy.authorization.prior_validity,
                     policy.authorization.allowed_attempts>>
       IN  \/ /\ trace' = Append(trace, Call("auth.authenticate", context, args, TRUE))
              /\ pc' = "pre_exec"
              /\ UNCHANGED outcome
           \/ /\ trace' = Append(trace, Call("auth.authenticate", context, args, FALSE))
              /\ ReturnErr(ErrorFrom("auth.authenticate"))
    /\ UNCHANGED <<sudo_options, env_path, cwd, pre, context, policy, exec_result, pid>>
    /\ UNCHANGED cvars

(***************************************************************************)
(* run, lines 71-78: self.authenticator.pre_exec(&context)?, the target    *)
(* environment (a pure computation) and let pid = context.process.pid      *)
(***************************************************************************)
PreExec ==
    /\ pc = "pre_exec"
    /\ \/ /\ trace' = Append(trace, Call("auth.pre_exec", context, <<>>, TRUE))
          /\ pid' = context.pid
          /\ pc' = "execute"
          /\ UNCHANGED outcome
       \/ /\ trace' = Append(trace, Call("auth.pre_exec", context, <<>>, FALSE))
          /\ ReturnErr(ErrorFrom("auth.pre_exec"))
          /\ UNCHANGED pid
    /\ UNCHANGED <<sudo_options, env_path, cwd, pre, context, policy, exec_result>>
    /\ UNCHANGED cvars

\* RunCommand with `?` applied to run_command's result at once, before
\* line 88
RunCommandReturningEarly ==
    /\ pc = "execute"
    /\ context.resolved
    /\ \/ /\ \E reason \in ExitReasons : exec_result' = ResultOk(reason)
          /\ trace' = Append(trace, Call("run_command", context, <<>>, TRUE))
          /\ pc' = "cleanup"
          /\ UNCHANGED outcome
       \/ /\ exec_result' = ResultErr(ErrorIo(Some(context.command), "run_command"))
          /\ trace' = Append(trace, Call("run_command", context, <<>>, FALSE))
          /\ ReturnErr(ErrorIo(Some(context.command), "run_command"))
    /\ UNCHANGED <<sudo_options, env_path, cwd, pre, context, policy, pid>>
    /\ UNCHANGED cvars

(***************************************************************************)
(* run, lines 81-83: the command is resolved: run_command(&context, env)   *)
(* with an io error mapped to Error::IoError(Some(command), io_error)      *)
(***************************************************************************)
RunCommand ==
    /\ pc = "execute"
    /\ context.resolved
    /\ \/ /\ \E reason \in ExitReasons : exec_result' = ResultOk(reason)
          /\ trace' = Append(trace, Call("run_command", context, <<>>, TRUE))
       \/ /\ exec_result' = ResultErr(ErrorIo(Some(context.command), "run_command"))
          /\ trace' = Append(trace, Call("run_command", context, <<>>, FALSE))
    /\ pc' = "cleanup"
    /\ UNCHANGED <<sudo_options, env_path, cwd, pre, context, policy, pid, outcome>>
    /\ UNCHANGED cvars

\* CommandNotFound carrying the search path instead of the command's path
CommandNotFoundCarryingSearchPath ==
    /\ pc = "execute"
    /\ ~context.resolved
    /\ exec_result' = ResultErr(ErrorCommandNotFound(context.path))
    /\ pc' = "cleanup"
    /\ UNCHANGED <<sudo_options, env_path, cwd, pre, context, policy, pid, trace,
                   outcome>>
    /\ UNCHANGED cvars

(***************************************************************************)
(* run, lines 84-86: the command is not resolved:                          *)
(*     Err(Error::CommandNotFound(context.command.command))                *)
(***************************************************************************)
CommandNotFound ==
    /\ pc = "execute"
    /\ ~context.resolved
    /\ exec_result' = ResultErr(ErrorCommandNotFound(context.command))
    /\ pc' = "cleanup"
    /\ UNCHANGED <<sudo_options, env_path, cwd, pre, context, policy, pid, trace,
                   outcome>>
    /\ UNCHANGED cvars

\* Cleanup with the call of line 88 left out
CleanupOmitted ==
    /\ pc = "cleanup"
    /\ pc' = "unwrap"
    /\ UNCHANGED <<sudo_options, env_path, cwd, pre, context, policy, exec_result,
                   pid, trace, outcome>>
    /\ UNCHANGED cvars

(***************************************************************************)
(* run, line 88: self.authenticator.cleanup()                              *)
(***************************************************************************)
Cleanup ==
    /\ pc = "cleanup"
    /\ trace' = Append(trace, Call("auth.cleanup", context, <<>>, TRUE))
    /\ pc' = "unwrap"
    /\ UNCHANGED <<sudo_options, env_path, cwd, pre, context, policy, exec_result,
                   pid, outcome>>
    /\ UNCHANGED cvars

(***************************************************************************)
(* run, line 90: let (reason, emulate_default_handler) = exec_result?      *)
(***************************************************************************)
UnwrapExecResult ==
    /\ pc = "unwrap"
    /\ IF exec_result.tag = "Err"
       THEN ReturnErr(exec_result.err)
       ELSE pc' = "emulate" /\ UNCHANGED outcome
    /\ UNCHANGED <<sudo_options, env_path, cwd, pre, context, policy, exec_result,
                   pid, trace>>
    /\ UNCHANGED cvars

(***************************************************************************)
(* run, line 93: emulate_default_handler()                                 *)
(***************************************************************************)
EmulateDefaultHandler ==
    /\ pc = "emulate"
    /\ trace' = Append(trace, Call("emulate_default_handler", context, <<>>, TRUE))
    /\ pc' = "terminate"
    /\ UNCHANGED <<sudo_options, env_path, cwd, pre, context, policy, exec_result,
                   pid, outcome>>
    /\ UNCHANGED cvars

(***************************************************************************)
(* run, line 96: ExitReason::Code(code) => exit(code)                      *)
(***************************************************************************)
ExitWithCode ==
    /\ pc = "terminate"
    /\ exec_result.reason.kind = "Code"
    /\ trace' = Append(trace, Call("exit", context, <<exec_result.reason.val>>, TRUE))
    /\ outcome' = [kind |-> "Exit", err |-> NoError, code |-> exec_result.reason.val]
    /\ pc' = "done"
    /\ UNCHANGED <<sudo_options, env_path, cwd, pre, context, policy, exec_result, pid>>
    /\ UNCHANGED cvars

\* KillWithSignal turning the signal into an exit code, as a shell would
KillWithSignalAsExitCode ==
    /\ pc = "terminate"
    /\ exec_result.reason.kind = "Signal"
    /\ LET code == 128 + exec_result.reason.val
       IN  /\ trace' = Append(trace, Call("exit", context, <<code>>, TRUE))
           /\ outcome' = [kind |-> "Exit", err |-> NoError, code |-> code]
           /\ pc' = "done"
    /\ UNCHANGED <<sudo_options, env_path, cwd, pre, context, policy, exec_result, pid>>
    /\ UNCHANGED cvars

(***************************************************************************)
(* run, lines 97-102: ExitReason::Signal(signal) =>                        *)
(*     crate::system::kill(pid, signal)?; then Ok(())                      *)
(***************************************************************************)
KillWithSignal ==
    /\ pc = "terminate"
    /\ exec_result.reason.kind = "Signal"
    /\ LET args == <<pid, exec_result.reason.val>>
       IN  \/ /\ trace' = Append(trace, Call("kill", context, args, TRUE))
              /\ outcome' = [kind |-> "Ok", err |-> NoError, code |-> 0]
              /\ pc' = "done"
           \/ /\ trace' = Append(trace, Call("kill", context, args, FALSE))
              /\ ReturnErr(ErrorFrom("kill"))
    /\ UNCHANGED <<sudo_options, env_path, cwd, pre, context, policy, exec_result, pid>>
    /\ UNCHANGED cvars

PipelineNext ==
    \/ PolicyInit
    \/ BuildContext
    \/ Judge
    \/ MatchForbidden
    \/ MatchAllowed
    \/ AuthInit
    \/ Authenticate
    \/ PreExec
    \/ RunCommand
    \/ CommandNotFound
    \/ Cleanup
    \/ UnwrapExecResult
    \/ EmulateDefaultHandler
    \/ ExitWithCode
    \/ KillWithSignal

(***************************************************************************)
(*                        CONVERSATION BRIDGE                              *)
(***************************************************************************)
MaxMsgs == 3

\* sudo_pam_sys constants named by PamMessageStyle, lines 13-21
PAM_PROMPT_ECHO_OFF == 1
PAM_PROMPT_ECHO_ON == 2
PAM_ERROR_MSG == 3
PAM_TEXT_INFO == 4

\* msg_style values PAM may hand over: the four above, one more that
\* Linux-PAM defines, and a negative one
StyleCodes == {-1} \cup (PAM_PROMPT_ECHO_OFF..(PAM_TEXT_INFO + 1))
Texts == {"", "fish"}

\* a C string allocated by malloc, and the two sudo_cutils conversions
CString(text) == [cstr |-> text]
StringFromPtr(ptr) == ptr.cstr
IntoLeakyCstring(text) == CString(text)

ForeignMessages == [msg : {CString(t) : t \in Texts}, msg_style : StyleCodes]

\* `val as libc::c_uint`, line 28: the 32 bits of val read as unsigned, kept
\* as the pair of their high and low 16 bits
AsCUint(val) == <<(val \div 65536) % 65536, val % 65536>>

\* from_int with the `_ => None` arm taking a default style instead
FromIntDefaulting(val) ==
    LET u == AsCUint(val)
    IN  CASE u = AsCUint(PAM_PROMPT_ECHO_OFF) -> Some("PromptEchoOff")
          [] u = AsCUint(PAM_PROMPT_ECHO_ON) -> Some("PromptEchoOn")
          [] u = AsCUint(PAM_ERROR_MSG) -> Some("ErrorMessage")
          [] OTHER -> Some("TextInfo")

\* PamMessageStyle::from_int, lines 25-35
FromInt(val) ==
    LET u == AsCUint(val)
    IN  CASE u = AsCUint(PAM_PROMPT_ECHO_OFF) -> Some("PromptEchoOff")
          [] u = AsCUint(PAM_PROMPT_ECHO_ON) -> Some("PromptEchoOn")
          [] u = AsCUint(PAM_ERROR_MSG) -> Some("ErrorMessage")
          [] u = AsCUint(PAM_TEXT_INFO) -> Some("TextInfo")
          [] OTHER -> None

\* struct PamMessage, lines 40-44
PamMessage(text, style, resp) == [msg |-> text, style |-> style, response |-> resp]

\* PamMessage::set_response and clear_response, lines 48-55
SetResponse(m, resp) == [m EXCEPT !.response = Some(resp)]
ClearResponse(m) == [m EXCEPT !.response = None]

\* converse, lines 194-213: the messages pushed, or None on the early return
RECURSIVE DecodeFrom(_, _, _, _)
DecodeFrom(i, n, records, acc) ==
    IF i >= n
    THEN Some(acc)
    ELSE LET message == records[i + 1]
             style == FromInt(message.msg_style)
         IN  IF IsSome(style)
             THEN DecodeFrom(i + 1, n, records,
                             Append(acc, PamMessage(StringFromPtr(message.msg),
                                                    Unwrap(style), None)))
             ELSE None

\* BuildConversation walking the records from the last to the first
BuildConversationBackwards(n, records) ==
    DecodeFrom(0, n, [i \in 1..n |-> records[n + 1 - i]], <<>>)

BuildConversation(n, records) == DecodeFrom(0, n, records, <<>>)

\* PamErrorType::as_int: the PAM status codes
AsInt(status) ==
    CASE status = "Success" -> 0
      [] status = "ConversationError" -> 19
      [] status = "BufferError" -> 5

\* struct pam_response, and the location `response` points to
ResponseSlot(resp) == [resp |-> resp, resp_retcode |-> 0]
NullPtr == [tag |-> "null", slots |-> <<>>]
UnsetPtr == [tag |-> "unset", slots |-> <<>>]
StalePtr == [tag |-> "stale", slots |-> <<>>]
ArrayPtr(slots) == [tag |-> "calloc", slots |-> slots]

\* the store loop filling the array from its far end
StoreResponsesReversed(messages, n) ==
    [i \in 1..n |->
        IF IsSome(messages[n + 1 - i].response)
        THEN ResponseSlot(Some(IntoLeakyCstring(Unwrap(messages[n + 1 - i].response))))
        ELSE ResponseSlot(None)]

\* converse, lines 238-247: the calloc'ed array after the store loop
StoreResponses(messages, n) ==
    [i \in 1..n |->
        IF IsSome(messages[i].response)
        THEN ResponseSlot(Some(IntoLeakyCstring(Unwrap(messages[i].response))))
        ELSE ResponseSlot(None)]

\* the two kinds of Converser: a SequentialConverser seen through the
\* blanket impl of lines 106-132, and a type that implements Converser itself
Conversers == {[kind |-> "sequential", name |-> "tux"],
               [kind |-> "custom", name |-> "gui"]}

\* the handlers of the test's SequentialConverser for String, lines 276-282
NormalPromptReply(self, text) == <<self.name, " says ", text>>
HiddenPromptReply(self, text) == <<self.name, "s secret is ", text>>
CustomReply(self, text) == <<self.name, " answers ", text>>

\* the blanket impl's match on msg.style, lines 114-127
HandlerFor(style) ==
    CASE style = "PromptEchoOn" -> "handle_normal_prompt"
      [] style = "PromptEchoOff" -> "handle_hidden_prompt"
      [] style = "ErrorMessage" -> "handle_error"
      [] style = "TextInfo" -> "handle_info"

\* AfterHandler with the two prompt handlers taken for each other
AfterHandlerSwappingPrompts(self, m) ==
    CASE m.style = "PromptEchoOn" -> SetResponse(m, HiddenPromptReply(self, m.msg))
      [] m.style = "PromptEchoOff" -> SetResponse(m, NormalPromptReply(self, m.msg))
      [] OTHER -> m

\* lines 115-126: the message after its handler returned Ok
AfterHandler(self, m) ==
    CASE m.style = "PromptEchoOn" -> SetResponse(m, NormalPromptReply(self, m.msg))
      [] m.style = "PromptEchoOff" -> SetResponse(m, HiddenPromptReply(self, m.msg))
      [] OTHER -> m

\* the Err arm of `match result` without line 261
CatchUnwindWithoutLatch(data) == data

\* converse, lines 256-265: what the Err arm of `match result` does to the carrier
CatchUnwind(data) == [data EXCEPT !.panicked = TRUE]

\* converse returns res.as_int(), line 266
ConverseReturn(status) ==
    /\ ret' = Some(AsInt(status))
    /\ cpc' = "returned"

\* a panic unwinds to catch_unwind, lines 256-266
ConversePanic ==
    /\ carrier' = CatchUnwind(carrier)
    /\ panic_raised' = TRUE
    /\ fault_seen' = TRUE
    /\ ConverseReturn("ConversationError")

(***************************************************************************)
(* PAM calls converse, lines 186-191, on the carrier as earlier calls left *)
(* it.                                                                     *)
(***************************************************************************)
ConverseEnter ==
    /\ cpc = "idle"
    /\ \E n \in 0..MaxMsgs :
          /\ num_msg' = n
          /\ msg' \in [1..n -> ForeignMessages]
    /\ \E r \in {NullPtr, StalePtr} : response' = r /\ response_before' = r
    /\ conversation' = <<>>
    /\ temp_resp' = UnsetPtr
    /\ invoked' = FALSE
    /\ next_msg' = 0
    /\ handled' = <<>>
    /\ conv_result' = "none"
    /\ ret' = None
    /\ panic_raised' = FALSE
    /\ cpc' = "decode"
    /\ UNCHANGED <<carrier, fault_seen>>
    /\ UNCHANGED pvars

(***************************************************************************)
(* converse, lines 194-219: build the conversation; on success call        *)
(* handle_conversation                                                     *)
(***************************************************************************)
ConverseDecode ==
    /\ cpc = "decode"
    /\ LET built == BuildConversation(num_msg, msg)
       IN  IF IsSome(built)
           THEN /\ conversation' = Unwrap(built)
                /\ invoked' = TRUE
                /\ cpc' = "handle"
                /\ UNCHANGED ret
           ELSE /\ ConverseReturn("ConversationError")
                /\ UNCHANGED <<conversation, invoked>>
    /\ UNCHANGED <<carrier, num_msg, msg, response, response_before, next_msg,
                   handled, conv_result, panic_raised, fault_seen>>
    /\ UNCHANGED temp_resp
    /\ UNCHANGED pvars

\* one entry of the log of handler calls: the handler, its argument, the
\* index of the message and how the call ended
Handled(m, index, result) ==
    [handler |-> HandlerFor(m.style), msg |-> m.msg, index |-> index,
     result |-> result]

\* SeqHandleMessage with the `?` of lines 116-125 dropped: after a handler's
\* Err the loop goes on with the next message
SeqHandleMessageIgnoringErr ==
    /\ cpc = "handle"
    /\ carrier.converser.kind = "sequential"
    /\ next_msg < Len(conversation)
    /\ LET m == conversation[next_msg + 1]
       IN  \/ /\ handled' = Append(handled, Handled(m, next_msg, "Ok"))
              /\ conversation' =
                     [conversation EXCEPT ![next_msg + 1] =
                         AfterHandler(carrier.converser, m)]
              /\ next_msg' = next_msg + 1
              /\ UNCHANGED <<carrier, cpc, conv_result, ret, panic_raised,
                             fault_seen>>
           \/ /\ handled' = Append(handled, Handled(m, next_msg, "Err"))
              /\ next_msg' = next_msg + 1
              /\ UNCHANGED <<carrier, cpc, conversation, conv_result, ret,
                             panic_raised, fault_seen>>
           \/ /\ handled' = Append(handled, Handled(m, next_msg, "Panic"))
              /\ conv_result' = "Panic"
              /\ ConversePanic
              /\ UNCHANGED <<conversation, next_msg>>
    /\ UNCHANGED <<num_msg, msg, response, response_before, invoked>>
    /\ UNCHANGED temp_resp
    /\ UNCHANGED pvars

(***************************************************************************)
(* the blanket impl, lines 113-128: one turn of the loop: the handler of   *)
(* the next message is called and returns Ok, returns Err, or panics       *)
(***************************************************************************)
SeqHandleMessage ==
    /\ cpc = "handle"
    /\ carrier.converser.kind = "sequential"
    /\ next_msg < Len(conversation)
    /\ LET m == conversation[next_msg + 1]
       IN  \/ /\ handled' = Append(handled, Handled(m, next_msg, "Ok"))
              /\ conversation' =
                     [conversation EXCEPT ![next_msg + 1] =
                         AfterHandler(carrier.converser, m)]
              /\ next_msg' = next_msg + 1
              /\ UNCHANGED <<carrier, cpc, conv_result, ret, panic_raised,
                             fault_seen>>
           \/ /\ handled' = Append(handled, Handled(m, next_msg, "Err"))
              /\ conv_result' = "Err"
              /\ ConverseReturn("ConversationError")
              /\ UNCHANGED <<carrier, conversation, next_msg, panic_raised,
                             fault_seen>>
           \/ /\ handled' = Append(handled, Handled(m, next_msg, "Panic"))
              /\ conv_result' = "Panic"
              /\ ConversePanic
              /\ UNCHANGED <<conversation, next_msg>>
    /\ UNCHANGED <<num_msg, msg, response, response_before, invoked>>
    /\ UNCHANGED temp_resp
    /\ UNCHANGED pvars

(***************************************************************************)
(* the blanket impl, line 130: the loop is over, Ok(())                    *)
(***************************************************************************)
SeqHandleDone ==
    /\ cpc = "handle"
    /\ carrier.converser.kind = "sequential"
    /\ next_msg = Len(conversation)
    /\ conv_result' = "Ok"
    /\ cpc' = "store"
    /\ UNCHANGED <<carrier, num_msg, msg, response, response_before, conversation,
                   invoked, next_msg, handled, ret, panic_raised, fault_seen>>
    /\ UNCHANGED temp_resp
    /\ UNCHANGED pvars

\* what a Converser of its own can do to the messages besides set_response
\* and clear_response: msg and style are public fields (lines 41-42), and
\* messages_mut() hands out a &mut PamMessage for every message at once, so
\* it can assign the fields of a message or std::mem::swap two messages
CustomEdits(n) ==
    {"none"} \cup (IF n >= 1 THEN {"assign"} ELSE {})
             \cup (IF n >= 2 THEN {"swap"} ELSE {})
CustomEdit(messages, edit) ==
    CASE edit = "none" -> messages
      [] edit = "assign" ->
            [messages EXCEPT ![1] = [@ EXCEPT !.msg = "eel", !.style = "TextInfo"]]
      [] edit = "swap" ->
            [messages EXCEPT ![1] = messages[2], ![2] = messages[1]]

(***************************************************************************)
(* a Converser of its own, lines 82-86: through messages_mut() it may set  *)
(* or leave the response of any message (a response set and cleared again  *)
(* is a response left), edit the messages, and returns Ok or Err, or       *)
(* panics                                                                  *)
(***************************************************************************)
CustomHandle ==
    /\ cpc = "handle"
    /\ carrier.converser.kind = "custom"
    /\ \E answered \in SUBSET (1..Len(conversation)),
          edit \in CustomEdits(Len(conversation)) :
          conversation' =
              CustomEdit(
                  [i \in 1..Len(conversation) |->
                      IF i \in answered
                      THEN SetResponse(conversation[i],
                                       CustomReply(carrier.converser,
                                                   conversation[i].msg))
                      ELSE conversation[i]],
                  edit)
    /\ \/ /\ conv_result' = "Ok"
          /\ cpc' = "store"
          /\ UNCHANGED <<carrier, ret, panic_raised, fault_seen>>
       \/ /\ conv_result' = "Err"
          /\ ConverseReturn("ConversationError")
          /\ UNCHANGED <<carrier, panic_raised, fault_seen>>
       \/ /\ conv_result' = "Panic"
          /\ ConversePanic
    /\ UNCHANGED <<num_msg, msg, response, response_before, invoked, next_msg,
                   handled>>
    /\ UNCHANGED temp_resp
    /\ UNCHANGED pvars

\* ConverseStore reporting a null array as ConversationError
ConverseStoreNullAsConversationError ==
    /\ cpc = "store"
    /\ \/ /\ temp_resp' = NullPtr
          /\ ConverseReturn("ConversationError")
          /\ UNCHANGED response
       \/ /\ temp_resp' = ArrayPtr(StoreResponses(conversation, num_msg))
          /\ response' = temp_resp'
          /\ ConverseReturn("Success")
    /\ UNCHANGED <<carrier, num_msg, msg, response_before, conversation, invoked,
                   next_msg, handled, conv_result, panic_raised, fault_seen>>
    /\ UNCHANGED pvars

\* ConverseStore with line 250 moved before the null test of line 232: the
\* null pointer is written to *response
ConverseStoreWritingBeforeNullTest ==
    /\ cpc = "store"
    /\ \/ /\ temp_resp' = NullPtr
          /\ response' = temp_resp'
          /\ ConverseReturn("BufferError")
       \/ /\ temp_resp' = ArrayPtr(StoreResponses(conversation, num_msg))
          /\ response' = temp_resp'
          /\ ConverseReturn("Success")
    /\ UNCHANGED <<carrier, num_msg, msg, response_before, conversation, invoked,
                   next_msg, handled, conv_result, panic_raised, fault_seen>>
    /\ UNCHANGED pvars

\* ConverseStore treating a null array like a caught panic: the latch is set
ConverseStoreLatchingOnNull ==
    /\ cpc = "store"
    /\ \/ /\ temp_resp' = NullPtr
          /\ ConverseReturn("BufferError")
          /\ carrier' = [carrier EXCEPT !.panicked = TRUE]
          /\ UNCHANGED response
       \/ /\ temp_resp' = ArrayPtr(StoreResponses(conversation, num_msg))
          /\ response' = temp_resp'
          /\ ConverseReturn("Success")
          /\ UNCHANGED carrier
    /\ UNCHANGED <<num_msg, msg, response_before, conversation, invoked,
                   next_msg, handled, conv_result, panic_raised, fault_seen>>
    /\ UNCHANGED pvars

(***************************************************************************)
(* converse, lines 227-252: calloc; null gives BufferError; else the       *)
(* responses are stored, *response is set and Success is returned          *)
(***************************************************************************)
ConverseStore ==
    /\ cpc = "store"
    /\ \/ /\ temp_resp' = NullPtr
          /\ ConverseReturn("BufferError")
          /\ UNCHANGED response
       \/ /\ temp_resp' = ArrayPtr(StoreResponses(conversation, num_msg))
          /\ response' = temp_resp'
          /\ ConverseReturn("Success")
    /\ UNCHANGED <<carrier, num_msg, msg, response_before, conversation, invoked,
                   next_msg, handled, conv_result, panic_raised, fault_seen>>
    /\ UNCHANGED pvars

(***************************************************************************)
(* converse has returned: PAM takes the status and the array, and the      *)
(* arguments and locals of the call are gone; the carrier lives on.        *)
(***************************************************************************)
ConverseLeave ==
    /\ cpc = "returned"
    /\ cpc' = "idle"
    /\ num_msg' = 0
    /\ msg' = <<>>
    /\ response' = NullPtr
    /\ response_before' = NullPtr
    /\ conversation' = <<>>
    /\ temp_resp' = UnsetPtr
    /\ invoked' = FALSE
    /\ next_msg' = 0
    /\ handled' = <<>>
    /\ conv_result' = "none"
    /\ ret' = None
    /\ panic_raised' = FALSE
    /\ UNCHANGED <<carrier, fault_seen>>
    /\ UNCHANGED pvars

ConverseNext ==
    \/ ConverseEnter
    \/ ConverseDecode
    \/ SeqHandleMessage
    \/ SeqHandleDone
    \/ CustomHandle
    \/ ConverseStore
    \/ ConverseLeave

(***************************************************************************)
(*                     PROPERTIES OF Pipeline::run                         *)
(***************************************************************************)
\* the positions of the calls of `op` in the trace
CallsOf(op) == {k \in 1..Len(trace) : trace[k].op = op}
Called(op) == CallsOf(op) # {}
CalledOk(op) == \E k \in CallsOf(op) : trace[k].ok
CalledErr(op) == \E k \in CallsOf(op) : ~trace[k].ok
\* some call of `op` that returned Ok stands before position k
OkBefore(op, k) == \E j \in CallsOf(op) : j < k /\ trace[j].ok
\* judge has returned this run's policy
Judged == CalledOk("policy.judge")
JudgedForbidden == Judged /\ policy.authorization.tag = "Forbidden"
JudgedAllowed == Judged /\ policy.authorization.tag = "Allowed"
\* the context judge was handed
JudgedContext == trace[CHOOSE k \in CallsOf("policy.judge") : TRUE].ctx

\* C1: run_command is called only after judge returned a policy that allows,
\* AuthPlugin.init returned Ok and, when must_authenticate, authenticate
\* returned Ok; when the policy forbids or authenticate returned an error,
\* run_command is never called.
C1_ExecuteOnlyWhenAuthorized ==
    /\ \A k \in CallsOf("run_command") :
          /\ OkBefore("policy.judge", k)
          /\ policy.authorization.tag = "Allowed"
          /\ OkBefore("auth.init", k)
          /\ policy.authorization.must_authenticate
                => OkBefore("auth.authenticate", k)
    /\ (JudgedForbidden \/ CalledErr("auth.authenticate"))
          => ~Called("run_command")

C1_Witness ==
    /\ pc = "done"
    /\ CalledOk("run_command")
    /\ policy.authorization.must_authenticate

\* C2: when the policy forbids, run calls none of AuthPlugin.init,
\* authenticate, pre_exec, nor the executor, and returns an authorization
\* error whose message names the invoking user.
C2_ForbiddenStopsTheRun ==
    JudgedForbidden =>
        /\ ~Called("auth.init")
        /\ ~Called("auth.authenticate")
        /\ ~Called("auth.pre_exec")
        /\ ~Called("run_command")
        /\ pc \in {"match", "done"}
        /\ pc = "done" =>
              /\ outcome.kind = "Err"
              /\ outcome.err.kind = "Authentication"
              /\ \E i \in 1..Len(outcome.err.msg) :
                    outcome.err.msg[i] = sudo_options.user

C2_Witness ==
    /\ JudgedForbidden
    /\ pc = "done"
    /\ sudo_options.user = "bob"

\* C3 as claimed: whenever pre_exec was called, cleanup is called exactly
\* once by the end of the run; otherwise at most once.
C3_CleanupOnceWheneverPreExecCalled ==
    /\ (pc = "done" /\ Called("auth.pre_exec"))
          => Cardinality(CallsOf("auth.cleanup")) = 1
    /\ ~Called("auth.pre_exec") => Cardinality(CallsOf("auth.cleanup")) <= 1

\* C3 amended: whenever pre_exec returned Ok, cleanup is called exactly once
\* by the end of the run, whether the execution step succeeded, failed with
\* an I/O error or found no command; in every other run (pre_exec not
\* called, or returned an error) cleanup is not called at all.
C3_CleanupOnceWheneverPreExecOk ==
    /\ (pc = "done" /\ CalledOk("auth.pre_exec"))
          => Cardinality(CallsOf("auth.cleanup")) = 1
    /\ ~CalledOk("auth.pre_exec") => ~Called("auth.cleanup")
    /\ Cardinality(CallsOf("auth.cleanup")) <= 1

C3_Witness ==
    /\ pc = "done"
    /\ CalledOk("auth.pre_exec")
    /\ outcome.err.kind = "IoError"
    /\ Cardinality(CallsOf("auth.cleanup")) = 1

\* C4: cleanup is called before run surfaces any outcome of the execution
\* step: before the IoError or CommandNotFound error is returned, before the
\* process exits with the command's code, before the signal is redelivered.
C4_CleanupBeforeOutcome ==
    /\ (outcome.kind # "running" /\ exec_result.tag # "none")
          => Called("auth.cleanup")
    /\ outcome.err.kind \in {"IoError", "CommandNotFound"}
          => Called("auth.cleanup")
    /\ \A k \in CallsOf("exit") \cup CallsOf("kill") :
          \E j \in CallsOf("auth.cleanup") : j < k

C4_Witness ==
    /\ pc = "done"
    /\ outcome.err.kind = "CommandNotFound"
    /\ Called("auth.cleanup")

\* C5 as claimed: when the policy allows with must_authenticate = false, run
\* never calls authenticate and ends having called init, then pre_exec, then
\* cleanup.
C5_NoAuthenticateButInitPreExecCleanup ==
    (JudgedAllowed /\ ~policy.authorization.must_authenticate) =>
        /\ ~Called("auth.authenticate")
        /\ pc = "done" =>
              \E i \in CallsOf("auth.init"), j \in CallsOf("auth.pre_exec"),
                 k \in CallsOf("auth.cleanup") : i < j /\ j < k

\* C5 amended: when the policy allows with must_authenticate = false, run
\* never calls authenticate; it calls init when apply_policy_to_context
\* succeeds, then pre_exec when init returned Ok, and then cleanup when
\* pre_exec returned Ok.
C5_NoAuthenticateStepsWhileOk ==
    (JudgedAllowed /\ ~policy.authorization.must_authenticate) =>
        /\ ~Called("auth.authenticate")
        /\ pc = "done" =>
              /\ ApplyPolicyToContext(JudgedContext, policy, cwd).ok
                    => Called("auth.init")
              /\ \A i \in CallsOf("auth.init") :
                    trace[i].ok =>
                        \E j \in CallsOf("auth.pre_exec") : i < j
              /\ \A j \in CallsOf("auth.pre_exec") :
                    trace[j].ok =>
                        \E k \in CallsOf("auth.cleanup") : j < k

C5_Witness ==
    /\ JudgedAllowed
    /\ ~policy.authorization.must_authenticate
    /\ pc = "done"
    /\ Called("auth.cleanup")

\* C6: when the policy allows with must_authenticate = true, pre_exec and
\* the executor are called only after init returned Ok and, after that,
\* authenticate was called with the decision's prior_validity and
\* allowed_attempts; authenticate is never called with other values.
C6_AuthenticateBeforePreExec ==
    (JudgedAllowed /\ policy.authorization.must_authenticate) =>
        /\ \A k \in CallsOf("auth.pre_exec") \cup CallsOf("run_command") :
              \E i \in CallsOf("auth.init"), j \in CallsOf("auth.authenticate") :
                 /\ i < j /\ j < k
                 /\ trace[i].ok
        /\ \A j \in CallsOf("auth.authenticate") :
              trace[j].args = <<policy.authorization.prior_validity,
                                policy.authorization.allowed_attempts>>

C6_Witness ==
    /\ JudgedAllowed
    /\ policy.authorization.must_authenticate
    /\ policy.authorization.prior_validity # policy.authorization.allowed_attempts
    /\ Called("run_command")

\* apply_policy_to_context has returned for this run's policy
Applied == JudgedAllowed /\ pc # "match"
\* it returned the "no permission" error
Rejected ==
    /\ pc = "done"
    /\ outcome = [kind |-> "Err", err |-> ErrorAuth(<<"no permission">>),
                  code |-> 0]

\* C12: with policy chdir Strict(dir), a chdir request in the context that
\* differs from the current working directory makes apply_policy_to_context
\* fail with an authorization error, whatever dir is (None included), and
\* run stops there; with no request, or a request equal to the current
\* working directory, the context's chdir becomes dir.
C12_StrictRejectsOrOverwrites ==
    (Applied /\ policy.chdir.tag = "Strict") =>
        IF IsSome(JudgedContext.chdir) /\ JudgedContext.chdir # cwd
        THEN /\ Rejected
             /\ outcome.err.kind = "Authentication"
             /\ ~Called("auth.init")
        ELSE /\ ~Rejected
             /\ context.chdir = policy.chdir.dir

C12_Witness ==
    /\ Applied
    /\ policy.chdir = DirStrict(None)
    /\ JudgedContext.chdir = Some("/other")
    /\ cwd = Some("/cwd")
    /\ Rejected

\* C13: with policy chdir Any the context's chdir stays what it was and the
\* call does not fail; when apply_policy_to_context succeeds, use_pty() =
\* false leaves the context's use_pty false and use_pty() = true leaves it
\* what it was (never turned on).
C13_AnyKeepsChdirAndPtyOnlyTurnsOff ==
    Applied =>
        /\ policy.chdir.tag = "Any" =>
              /\ ~Rejected
              /\ context.chdir = JudgedContext.chdir
        /\ ~Rejected =>
              context.use_pty =
                  IF policy.use_pty THEN JudgedContext.use_pty ELSE FALSE

C13_Witness ==
    /\ Applied
    /\ policy.chdir.tag = "Any"
    /\ JudgedContext.chdir = Some("/other")
    /\ context.chdir = Some("/other")
    /\ policy.use_pty
    /\ ~JudgedContext.use_pty
    /\ ~context.use_pty
    /\ Called("auth.init")

\* C14: the policy's chdir and pty rules are applied only on the Allowed
\* branch and only after judge returned: judge is handed the context as
\* build_from_options made it, the context stays that one until judge
\* returned and for ever when the decision is Forbidden, and AuthPlugin.init,
\* authenticate and pre_exec are handed the refined context.
C14_RefinementOnlyWhenAllowedAfterJudge ==
    /\ \A k \in CallsOf("policy.judge") :
          /\ trace[k].ctx.built
          /\ trace[k].ctx.chdir = sudo_options.chdir
          /\ trace[k].ctx.use_pty = sudo_options.use_pty
    /\ (context.built /\ ~Judged) =>
          /\ context.chdir = sudo_options.chdir
          /\ context.use_pty = sudo_options.use_pty
    /\ (Judged /\ (pc = "match" \/ policy.authorization.tag = "Forbidden")) =>
          context = JudgedContext
    /\ \A k \in CallsOf("auth.init") \cup CallsOf("auth.authenticate")
                \cup CallsOf("auth.pre_exec") :
          /\ JudgedAllowed
          /\ OkBefore("policy.judge", k)
          /\ ApplyPolicyToContext(JudgedContext, policy, cwd).ok
          /\ trace[k].ctx = ApplyPolicyToContext(JudgedContext, policy, cwd).ctx

C14_Witness ==
    /\ Called("auth.init")
    /\ Called("auth.authenticate")
    /\ Called("auth.pre_exec")
    /\ context.chdir # JudgedContext.chdir
    /\ context.use_pty # JudgedContext.use_pty

\* C15: when the executor returned an exit reason, emulate_default_handler
\* is called exactly once by the time run ends, after cleanup and before
\* exit or kill; exit gets the command's code, kill gets the pid of the
\* context and the command's signal, and a signal never ends in exit.
C15_HookBeforeTermination ==
    /\ Cardinality(CallsOf("emulate_default_handler")) <= 1
    /\ (pc = "done" /\ exec_result.tag = "Ok") =>
          Cardinality(CallsOf("emulate_default_handler")) = 1
    /\ \A h \in CallsOf("emulate_default_handler") :
          /\ exec_result.tag = "Ok"
          /\ \E c \in CallsOf("auth.cleanup") : c < h
    /\ \A k \in CallsOf("exit") \cup CallsOf("kill") :
          \E h \in CallsOf("emulate_default_handler") : h < k
    /\ \A k \in CallsOf("exit") :
          /\ exec_result.reason.kind = "Code"
          /\ trace[k].args = <<exec_result.reason.val>>
    /\ \A k \in CallsOf("kill") :
          /\ exec_result.reason.kind = "Signal"
          /\ trace[k].args = <<JudgedContext.pid, exec_result.reason.val>>
    /\ exec_result.reason.kind = "Signal" =>
          /\ ~Called("exit")
          /\ outcome.kind # "Exit"
          /\ pc = "done" => Cardinality(CallsOf("kill")) = 1

C15_Witness ==
    /\ pc = "done"
    /\ exec_result.reason.kind = "Signal"
    /\ CalledOk("kill")
    /\ outcome.kind = "Ok"

\* C16: the context is built with the secure path of the pre-judgement
\* policy whenever there is one, whatever the inherited PATH; with none, with
\* the inherited PATH, and with the empty path when PATH is unset.
C16_SecurePathTakesPrecedence ==
    context.built =>
        /\ IsSome(pre.secure_path) => context.path = Unwrap(pre.secure_path)
        /\ (~IsSome(pre.secure_path) /\ IsSome(env_path)) =>
              context.path = Unwrap(env_path)
        /\ (~IsSome(pre.secure_path) /\ ~IsSome(env_path)) => context.path = ""

C16_Witness ==
    /\ context.built
    /\ pre.secure_path = Some("/secure")
    /\ env_path = Some("/usr/bin")
    /\ context.path = "/secure"
    /\ Judged

\* the fixed order of the plugin and executor calls
CallOrder ==
    <<"policy.init", "policy.judge", "auth.init", "auth.authenticate",
      "auth.pre_exec", "run_command", "auth.cleanup">>
Rank(op) == CHOOSE i \in 1..Len(CallOrder) : CallOrder[i] = op
OrderedCalls == {k \in 1..Len(trace) : \E i \in 1..Len(CallOrder) : trace[k].op = CallOrder[i]}
\* the calls whose error `?` returns from run
FatalCalls ==
    {"policy.init", "policy.judge", "auth.init", "auth.authenticate",
     "auth.pre_exec"}

\* C17: the plugin and executor calls of a run stand in the fixed order
\* init, judge, init, authenticate, pre_exec, run_command, cleanup, none
\* made twice; a call is made only after the earlier ones (authenticate and
\* run_command may be left out) returned Ok; and when one of the five calls
\* before run_command returns an error, run returns an error and calls
\* nothing more.
C17_FixedOrderNoRetryErrorsFatal ==
    /\ \A j, k \in OrderedCalls :
          j < k => Rank(trace[j].op) < Rank(trace[k].op)
    /\ \A k \in OrderedCalls :
          \A i \in 1..(Rank(trace[k].op) - 1) :
              CallOrder[i] \notin {"auth.authenticate", "run_command"}
                  => OkBefore(CallOrder[i], k)
    /\ \A k \in OrderedCalls :
          (trace[k].op \in FatalCalls /\ ~trace[k].ok) =>
              /\ k = Len(trace)
              /\ pc = "done"
              /\ outcome.kind = "Err"

C17_Witness ==
    /\ pc = "done"
    /\ Cardinality(OrderedCalls) = Len(CallOrder)
    /\ outcome.kind = "Exit"

\* run has ended for a request whose command was not resolved
EndedUnresolved == pc = "done" /\ context.built /\ ~context.resolved

\* C21 as claimed: when the command was not resolved, run calls pre_exec,
\* never run_command, calls cleanup, and returns CommandNotFound with the
\* command's path; an IoError carries the command's path.
C21_UnresolvedAlwaysEndsCommandNotFound ==
    /\ EndedUnresolved =>
          /\ Called("policy.judge")
          /\ Called("auth.pre_exec")
          /\ ~Called("run_command")
          /\ Called("auth.cleanup")
          /\ outcome.err = ErrorCommandNotFound(context.command)
    /\ outcome.err.kind = "IoError" => outcome.err.cmd = Some(context.command)

\* C21 amended: run_command is never called for a command that was not
\* resolved; when the command was not resolved and pre_exec returned Ok (so
\* the policy allowed, init returned Ok and, when required, authenticate
\* returned Ok), run calls cleanup once and returns CommandNotFound with the
\* command's path; when an earlier step forbade or failed, run returns that
\* step's error and neither cleanup nor CommandNotFound occurs.  An IoError
\* comes from a failed run_command and carries the command's path.
C21_UnresolvedEndsCommandNotFoundAfterPreExec ==
    /\ \A k \in CallsOf("run_command") : trace[k].ctx.resolved
    /\ EndedUnresolved =>
          IF CalledOk("auth.pre_exec")
          THEN /\ JudgedAllowed
               /\ CalledOk("auth.init")
               /\ policy.authorization.must_authenticate
                     => CalledOk("auth.authenticate")
               /\ ~Called("run_command")
               /\ \E j \in CallsOf("auth.pre_exec") :
                     CallsOf("auth.cleanup") = {j + 1}
               /\ outcome = [kind |-> "Err",
                             err |-> ErrorCommandNotFound(context.command),
                             code |-> 0]
          ELSE /\ outcome.kind = "Err"
               /\ outcome.err.kind # "CommandNotFound"
               /\ ~Called("auth.cleanup")
    /\ outcome.err.kind = "CommandNotFound" =>
          /\ ~context.resolved
          /\ outcome.err.cmd = Some(context.command)
    /\ outcome.err.kind = "IoError" =>
          /\ CalledErr("run_command")
          /\ Called("auth.cleanup")
          /\ outcome.err.cmd = Some(context.command)

C21_Witness ==
    /\ EndedUnresolved
    /\ policy.authorization.must_authenticate
    /\ CalledOk("auth.authenticate")
    /\ CalledOk("auth.pre_exec")
    /\ Called("auth.cleanup")
    /\ outcome.err.kind = "CommandNotFound"
    /\ outcome.err.cmd = Some(CommandPath)

(***************************************************************************)
(*                       PROPERTIES OF converse                            *)
(***************************************************************************)
RecognizedCodes ==
    {PAM_PROMPT_ECHO_OFF, PAM_PROMPT_ECHO_ON, PAM_ERROR_MSG, PAM_TEXT_INFO}
PromptCodes == {PAM_PROMPT_ECHO_OFF, PAM_PROMPT_ECHO_ON}
Unrecognized(i) == msg[i].msg_style \notin RecognizedCodes
AllRecognized == \A i \in 1..num_msg : ~Unrecognized(i)
Returned(status) == cpc = "returned" /\ ret = Some(AsInt(status))
\* what the default adaptation answers to foreign record i
SequentialAnswer(i) ==
    CASE msg[i].msg_style = PAM_PROMPT_ECHO_ON ->
            Some(CString(NormalPromptReply(carrier.converser, msg[i].msg.cstr)))
      [] msg[i].msg_style = PAM_PROMPT_ECHO_OFF ->
            Some(CString(HiddenPromptReply(carrier.converser, msg[i].msg.cstr)))
      [] OTHER -> None

\* C7 as claimed: all styles recognized and the converser succeeded: converse
\* returns Success with N slots in the order of the messages; slot i is
\* non-null exactly when message i is a prompt and has a response attached,
\* and is then a copy of it; slots of error and info messages are null.
C7_SuccessWithSlotsForPromptsOnly ==
    (cpc = "returned" /\ AllRecognized /\ conv_result = "Ok") =>
        /\ ret = Some(AsInt("Success"))
        /\ response.tag = "calloc"
        /\ Len(response.slots) = num_msg
        /\ \A i \in 1..num_msg :
              /\ IsSome(response.slots[i].resp)
                    <=> /\ msg[i].msg_style \in PromptCodes
                        /\ IsSome(conversation[i].response)
              /\ IsSome(response.slots[i].resp)
                    => response.slots[i].resp =
                          Some(CString(Unwrap(conversation[i].response)))
              /\ msg[i].msg_style \notin PromptCodes
                    => response.slots[i].resp = None

\* C7 amended: all styles recognized and the converser succeeded: converse
\* returns Success unless the allocation of the response array fails
\* (BufferError); on Success it hands back N slots in the order of the
\* messages, each with retcode 0; slot i is non-null exactly when the
\* converser left a response attached to message i, and is then a copy of
\* it; under the default adaptation of a SequentialConverser these are
\* exactly the prompts, and the slots of error and info messages are null.
C7_SuccessWithSlotsForResponses ==
    (cpc = "returned" /\ AllRecognized /\ conv_result = "Ok") =>
        /\ ret \in {Some(AsInt("Success")), Some(AsInt("BufferError"))}
        /\ ret = Some(AsInt("Success")) =>
              /\ response.tag = "calloc"
              /\ Len(response.slots) = num_msg
              /\ Len(conversation) = num_msg
              /\ \A i \in 1..num_msg :
                    /\ response.slots[i].resp_retcode = 0
                    /\ IsSome(response.slots[i].resp)
                          <=> IsSome(conversation[i].response)
                    /\ IsSome(response.slots[i].resp)
                          => response.slots[i].resp =
                                Some(CString(Unwrap(conversation[i].response)))
                    /\ carrier.converser.kind = "sequential"
                          => response.slots[i].resp = SequentialAnswer(i)
                    /\ carrier.converser.kind = "custom"
                          => response.slots[i].resp \in
                                {None} \cup
                                {Some(CString(CustomReply(carrier.converser,
                                                          msg[j].msg.cstr))) :
                                     j \in 1..num_msg}

C7_Witness ==
    /\ Returned("Success")
    /\ num_msg = 3
    /\ msg[1].msg # msg[3].msg
    /\ IsSome(response.slots[1].resp)
    /\ ~IsSome(response.slots[2].resp)
    /\ IsSome(response.slots[3].resp)

\* C8: a foreign record with a style code outside the four recognized ones,
\* at any position: converse returns ConversationError, handle_conversation
\* is never called and no handler runs for any message.
C8_UnrecognizedStyleStopsBeforeConverser ==
    (\E i \in 1..num_msg : Unrecognized(i)) =>
        /\ ~invoked
        /\ handled = <<>>
        /\ conv_result = "none"
        /\ cpc \in {"decode", "returned"}
        /\ cpc = "returned" => ret = Some(AsInt("ConversationError"))

C8_Witness ==
    /\ Returned("ConversationError")
    /\ num_msg = 3
    /\ ~Unrecognized(1)
    /\ ~Unrecognized(2)
    /\ msg[3].msg_style = -1

\* C9: a panic of the converser does not leave converse: converse returns
\* ConversationError and the carrier's panicked becomes true; as long as no
\* call on the carrier has panicked, panicked is false.
C9_FaultIsCaughtAndLatched ==
    /\ panic_raised =>
          /\ cpc = "returned"
          /\ ret = Some(AsInt("ConversationError"))
          /\ carrier.panicked
    /\ ~fault_seen => ~carrier.panicked

C9_Witness ==
    /\ panic_raised
    /\ Len(handled) = 2
    /\ IsSome(conversation[1].response)
    /\ carrier.panicked

\* C10: panicked is a one-way latch: a step never takes it from true to
\* false, a step sets it only when a panic was caught in that step (not on a
\* converser error, an unrecognized style or a failed allocation), and no
\* step changes the carrier's converser.
C10_PanickedIsOneWayLatch ==
    [][/\ carrier.panicked => carrier'.panicked
       /\ carrier'.converser = carrier.converser
       /\ (~carrier.panicked /\ carrier'.panicked)
             => (panic_raised' /\ conv_result' = "Panic")]_vars

C10_Witness ==
    /\ carrier.panicked
    /\ ~panic_raised
    /\ Returned("BufferError")

\* C11: under the default adaptation the handlers are called in the order
\* of the messages, one index after the other; when the handler of message i
\* fails (returns Err or panics, handle_error and handle_info included) no
\* handler is called for a later message, handle_conversation does not
\* return Ok and converse returns ConversationError.
C11_HandlerFailureStopsTheLoop ==
    carrier.converser.kind = "sequential" =>
        /\ Len(handled) <= num_msg
        /\ \A k \in 1..Len(handled) :
              /\ handled[k].index = k - 1
              /\ handled[k].msg = msg[k].msg.cstr
              /\ handled[k].result # "Ok" =>
                    /\ k = Len(handled)
                    /\ conv_result = handled[k].result
                    /\ Returned("ConversationError")
        /\ conv_result = "Ok" =>
              /\ Len(handled) = num_msg
              /\ \A k \in 1..Len(handled) : handled[k].result = "Ok"

C11_Witness ==
    /\ num_msg = 3
    /\ Len(handled) = 2
    /\ handled[2].handler = "handle_info"
    /\ handled[2].result = "Err"
    /\ Returned("ConversationError")

\* the handler the default adaptation owes to a message of this style code
HandlerOwed(code) ==
    CASE code = PAM_PROMPT_ECHO_ON -> "handle_normal_prompt"
      [] code = PAM_PROMPT_ECHO_OFF -> "handle_hidden_prompt"
      [] code = PAM_ERROR_MSG -> "handle_error"
      [] code = PAM_TEXT_INFO -> "handle_info"
\* the response the message carries after that handler returned Ok
ResponseOwed(i) ==
    CASE msg[i].msg_style = PAM_PROMPT_ECHO_ON ->
            Some(NormalPromptReply(carrier.converser, msg[i].msg.cstr))
      [] msg[i].msg_style = PAM_PROMPT_ECHO_OFF ->
            Some(HiddenPromptReply(carrier.converser, msg[i].msg.cstr))
      [] OTHER -> None

\* C18: the default adaptation calls one handler for each message it
\* reaches, the one of the message's style, with the message's text; a
\* prompt whose handler returned Ok carries the handler's result as its
\* response, error and info messages and messages not handled carry none;
\* when the conversation ends Ok every message has had its handler, so
\* [secret a, info, visible b] ends as [hidden(a), none, normal(b)].
C18_OneHandlerPerMessageByStyle ==
    carrier.converser.kind = "sequential" =>
        /\ \A k \in 1..Len(handled) :
              /\ handled[k].index = k - 1
              /\ handled[k].handler = HandlerOwed(msg[k].msg_style)
              /\ handled[k].msg = msg[k].msg.cstr
        /\ \A i \in 1..Len(conversation) :
              conversation[i].response =
                  IF i <= Len(handled) /\ handled[i].result = "Ok"
                  THEN ResponseOwed(i) ELSE None
        /\ conv_result = "Ok" =>
              /\ Len(handled) = num_msg
              /\ \A i \in 1..num_msg : conversation[i].response = ResponseOwed(i)
        /\ ( /\ conv_result = "Ok"
             /\ num_msg = 3
             /\ msg[1].msg_style = PAM_PROMPT_ECHO_OFF
             /\ msg[2].msg_style = PAM_TEXT_INFO
             /\ msg[3].msg_style = PAM_PROMPT_ECHO_ON ) =>
              [i \in 1..3 |-> conversation[i].response] =
                  << Some(HiddenPromptReply(carrier.converser, msg[1].msg.cstr)),
                     None,
                     Some(NormalPromptReply(carrier.converser, msg[3].msg.cstr)) >>

C18_Witness ==
    /\ carrier.converser.kind = "sequential"
    /\ conv_result = "Ok"
    /\ num_msg = 3
    /\ msg[1].msg_style = PAM_PROMPT_ECHO_OFF
    /\ msg[2].msg_style = PAM_TEXT_INFO
    /\ msg[3].msg_style = PAM_PROMPT_ECHO_ON
    /\ msg[1].msg.cstr = "fish"
    /\ conversation[1].response =
           Some(HiddenPromptReply(carrier.converser, "fish"))
    /\ conversation[2].response = None
    /\ IsSome(conversation[3].response)
    /\ Returned("Success")

\* the converser returned an error or panicked
ConverserFailed == conv_result \in {"Err", "Panic"}

\* C19: a call of converse that has begun can always take its next step
\* until it has returned, and it returns one of three statuses: Success
\* exactly when every style code is recognized, the converser returned Ok
\* and the response array was allocated; BufferError exactly when the
\* converser returned Ok and calloc returned null; ConversationError in
\* every other case (unrecognized style, converser error, caught panic).
\* N = 0 is no exception.
C19_ThreeStatuses ==
    /\ cpc \in {"decode", "handle", "store"} =>
          /\ ret = None
          /\ ENABLED ConverseNext
    /\ cpc = "handle" => next_msg <= Len(conversation)
    /\ cpc = "returned" =>
          /\ \/ Returned("Success")
             \/ Returned("BufferError")
             \/ Returned("ConversationError")
          /\ Returned("Success") <=>
                (AllRecognized /\ conv_result = "Ok" /\ temp_resp.tag = "calloc")
          /\ Returned("BufferError") <=>
                (AllRecognized /\ conv_result = "Ok" /\ temp_resp = NullPtr)
          /\ Returned("ConversationError") <=>
                (~AllRecognized \/ ConverserFailed)
          /\ ~AllRecognized => conv_result = "none"

C19_Witness ==
    /\ num_msg = 0
    /\ conv_result = "Ok"
    /\ temp_resp = NullPtr
    /\ Returned("BufferError")

\* C20: while converse runs and when it has returned ConversationError or
\* BufferError the output location holds what it held before the call; it
\* holds the new array exactly when converse has returned Success.
C20_OutputWrittenIffSuccess ==
    /\ cpc \in {"decode", "handle", "store"} => response = response_before
    /\ cpc = "returned" =>
          /\ Returned("Success") =>
                /\ response = temp_resp
                /\ response.tag = "calloc"
                /\ response # response_before
          /\ ~Returned("Success") => response = response_before

C20_Witness ==
    /\ Returned("BufferError")
    /\ response_before = StalePtr
    /\ response = StalePtr
    /\ temp_resp = NullPtr

\* message i of the conversation as converse builds it from record i
Decoded(i) ==
    PamMessage(StringFromPtr(msg[i].msg), Unwrap(FromInt(msg[i].msg_style)), None)
\* the answers the model's conversers give to the text of record i
AnswersTo(i) ==
    {Some(NormalPromptReply(carrier.converser, msg[i].msg.cstr)),
     Some(HiddenPromptReply(carrier.converser, msg[i].msg.cstr)),
     Some(CustomReply(carrier.converser, msg[i].msg.cstr))}
\* the converser has been handed the conversation and has not touched it yet
JustPassed == cpc = "handle" /\ next_msg = 0 /\ conv_result = "none"

\* C22 as claimed: the conversation handed to the converser has the N
\* messages of the records, in their order, with empty responses; from then
\* on it keeps its length, every message keeps the record's text and style,
\* and a response at index i is an answer to the text of record i.
C22_OnlyResponsesEverChange ==
    invoked =>
        /\ Len(conversation) = num_msg
        /\ JustPassed => \A i \in 1..num_msg : conversation[i] = Decoded(i)
        /\ \A i \in 1..num_msg :
              /\ conversation[i].msg = Decoded(i).msg
              /\ conversation[i].style = Decoded(i).style
              /\ conversation[i].response \in {None} \cup AnswersTo(i)

\* C22 amended: the conversation handed to the converser has the N messages
\* of the records, in their order, with empty responses, and keeps its
\* length for the rest of the call; under the default adaptation every
\* message keeps the record's text and style and a response at index i is
\* the answer to record i; slot i of the array handed back is taken from
\* index i.  (A Converser of its own may leave other texts, styles and
\* answers at an index.)
C22_LengthFixedAndDefaultAdaptationInPlace ==
    invoked =>
        /\ Len(conversation) = num_msg
        /\ JustPassed => \A i \in 1..num_msg : conversation[i] = Decoded(i)
        /\ carrier.converser.kind = "sequential" =>
              \A i \in 1..num_msg :
                 /\ conversation[i].msg = Decoded(i).msg
                 /\ conversation[i].style = Decoded(i).style
                 /\ conversation[i].response \in {None, ResponseOwed(i)}
        /\ Returned("Success") =>
              /\ Len(response.slots) = num_msg
              /\ \A i \in 1..num_msg :
                    IsSome(conversation[i].response) =>
                        response.slots[i].resp =
                            Some(IntoLeakyCstring(Unwrap(conversation[i].response)))

C22_Witness ==
    /\ Returned("Success")
    /\ carrier.converser.kind = "sequential"
    /\ num_msg = 3
    /\ msg[1].msg # msg[2].msg
    /\ msg[1].msg_style # msg[2].msg_style
    /\ \A i \in 1..2 :
          /\ conversation[i].msg = msg[i].msg.cstr
          /\ IsSome(conversation[i].response)

(***************************************************************************)
(* The two specifications: each part runs with the other one at rest.      *)
(***************************************************************************)
PipelineAtRest ==
    /\ pc = "done"
    /\ sudo_options = [user |-> "alice", chdir |-> None, use_pty |-> TRUE]
    /\ env_path = None
    /\ cwd = None
    /\ pre = [secure_path |-> None]
    /\ context = NoContext
    /\ policy = NoPolicy
    /\ exec_result = NoResult
    /\ pid = 0
    /\ trace = <<>>
    /\ outcome = NoOutcome

ConverseAtRest ==
    /\ carrier = [converser |-> [kind |-> "sequential", name |-> "tux"],
                  panicked |-> FALSE]
    /\ cpc = "idle"
    /\ num_msg = 0
    /\ msg = <<>>
    /\ response = NullPtr
    /\ response_before = NullPtr
    /\ conversation = <<>>
    /\ temp_resp = UnsetPtr
    /\ invoked = FALSE
    /\ next_msg = 0
    /\ handled = <<>>
    /\ conv_result = "none"
    /\ ret = None
    /\ panic_raised = FALSE
    /\ fault_seen = FALSE

\* a run of Pipeline::run on any options and environment
PipelineStart ==
    /\ pc = "policy_init"
    /\ sudo_options \in [user : Users, chdir : ChdirRequests, use_pty : BOOLEAN]
    /\ env_path \in InheritedPaths
    /\ cwd \in CurrentDirs
    /\ pre = [secure_path |-> None]
    /\ context = NoContext
    /\ policy = NoPolicy
    /\ exec_result = NoResult
    /\ pid = 0
    /\ trace = <<>>
    /\ outcome = NoOutcome
    /\ ConverseAtRest

\* a carrier as ConverserData is created, panicked: false, around either
\* kind of converser
ConverseStart ==
    /\ carrier \in {[converser |-> c, panicked |-> FALSE] : c \in Conversers}
    /\ cpc = "idle"
    /\ num_msg = 0
    /\ msg = <<>>
    /\ response = NullPtr
    /\ response_before = NullPtr
    /\ conversation = <<>>
    /\ temp_resp = UnsetPtr
    /\ invoked = FALSE
    /\ next_msg = 0
    /\ handled = <<>>
    /\ conv_result = "none"
    /\ ret = None
    /\ panic_raised = FALSE
    /\ fault_seen = FALSE
    /\ PipelineAtRest

PipelineSpec == PipelineStart /\ [][PipelineNext]_vars

ConverseSpec == ConverseStart /\ [][ConverseNext]_vars

=============================================================================
